---------------------------- MODULE Spec2Model ----------------------------
(***************************************************************************)
(* A model of codex_ea/main.py: the probe that loads its configuration,    *)
(* builds one client, reads two optional prompt files, assembles one       *)
(* request, opens one streaming call and prints the streamed text.         *)
(*                                                                         *)
(* Text the program inspects or prints (file contents, deltas, standard    *)
(* output) is a sequence of one-character strings.  Values the program     *)
(* only compares or forwards (environment values, the prompt) are strings. *)
(* An optional value (Python's None, a missing file, an unset variable, a  *)
(* dictionary key left out) is a sequence of length 0 or 1.                *)
(*                                                                         *)
(* The SDK's stream is the environment: the events it delivers, whether    *)
(* opening it, iterating it or get_final_response raises.  The two prompt  *)
(* files, when they are regular files, are readable text.                  *)
(***************************************************************************)
EXTENDS Integers, Sequences, FiniteSets, TLC

\* ------------------------------------------------------------------ bounds

\* The longest event sequence a stream delivers.
MaxEvents == 3

\* The longest content of a prompt file, in characters.
MaxFileLen == 3

\* ------------------------------------------------------- optional values

None == <<>>

Some(x) == <<x>>

\* ------------------------------------------------------------- constants

PROMPT_TEXT ==
    "What model are you, and what application are you currently being used inside of?"

DEFAULT_MODEL == "gpt-5"

MISSING_KEY_MESSAGE == "Missing OPENAI_API_KEY environment variable.\n"

\* What the interpreter writes to the error stream for an uncaught exception.
TRACEBACK == "Traceback (most recent call last): ..."

EnvNames ==
    {"OPENAI_API_KEY", "OPENAI_BASE_URL", "OPENAI_ALLOW_INSECURE_SSL", "OPENAI_MODEL"}

DELTA == "response.output_text.delta"

COMPLETED == "response.completed"

\* ------------------------------------------------------------ pure parts

\* Python's truth value of a `str | None`: None and "" are false.
truthy(v) == v # None /\ v[1] # ""

\* str.strip() removes leading and trailing whitespace characters.
IsSpace(c) == c \in {" ", "\n", "\t"}

RECURSIVE lstrip(_)
lstrip(s) ==
    IF s # <<>> /\ IsSpace(Head(s)) THEN lstrip(Tail(s)) ELSE s

RECURSIVE rstrip(_)
rstrip(s) ==
    IF s # <<>> /\ IsSpace(s[Len(s)]) THEN rstrip(SubSeq(s, 1, Len(s) - 1)) ELSE s

strip(s) == rstrip(lstrip(s))

\* load_instructions without the strip: the file's text as it is.
load_instructions_unstripped(file) ==
    IF file = None THEN None
    ELSE IF file[1] = <<>> THEN None ELSE Some(file[1])

\* load_instructions(): None when INSTRUCTIONS_FILE is no file, else its
\* stripped text, or None when that is empty.
load_instructions(file) ==
    IF file = None THEN None
    ELSE LET instructions == strip(file[1])
         IN  IF instructions = <<>> THEN None ELSE Some(instructions)

\* load_system_prompt(): the same over SYSTEM_PROMPT_FILE.
load_system_prompt(file) ==
    IF file = None THEN None
    ELSE LET instructions == strip(file[1])
         IN  IF instructions = <<>> THEN None ELSE Some(instructions)

\* load_dotenv with override=True: the file's values win.
load_dotenv_override(env, file) ==
    [n \in EnvNames |-> IF file[n] # None THEN file[n] ELSE env[n]]

\* load_dotenv(dotenv_path=".env", override=False): a name already in the
\* environment is skipped; the others are set from the file.
load_dotenv(env, file) ==
    [n \in EnvNames |-> IF env[n] # None THEN env[n] ELSE file[n]]

\* build_openai_client with the flag read as a truth value, not compared to "1".
build_openai_client_truthy(key, env) ==
    [api_key     |-> key,
     base_url    |-> IF truthy(env["OPENAI_BASE_URL"])
                     THEN env["OPENAI_BASE_URL"] ELSE None,
     http_client |-> IF truthy(env["OPENAI_ALLOW_INSECURE_SSL"])
                     THEN Some([verify |-> FALSE]) ELSE None]

\* build_openai_client(api_key): the keyword arguments the client is built
\* from.  A key that is left out is None.
build_openai_client(key, env) ==
    LET allow_insecure == env["OPENAI_ALLOW_INSECURE_SSL"] = Some("1")
        base_url == env["OPENAI_BASE_URL"]
    IN  [api_key     |-> key,
         base_url    |-> IF truthy(base_url) THEN base_url ELSE None,
         http_client |-> IF allow_insecure THEN Some([verify |-> FALSE]) ELSE None]

\* input_messages with the two messages in the other order.
input_messages_swapped(prompt) ==
    << [role    |-> "user",
        content |-> Some(<<[type |-> "input_text", text |-> PROMPT_TEXT]>>)],
       [role |-> "system", content |-> prompt] >>

\* input_messages: the system message carries sys_prompt (None when there is
\* no override), the user message the fixed prompt.
input_messages(prompt) ==
    << [role |-> "system", content |-> prompt],
       [role    |-> "user",
        content |-> Some(<<[type |-> "input_text", text |-> PROMPT_TEXT]>>)] >>

\* stream_kwargs: model, input, store, and instructions when there are any.
build_stream_kwargs(mdl, instr, prompt) ==
    [model        |-> mdl,
     input        |-> input_messages(prompt),
     store        |-> FALSE,
     instructions |-> IF instr # None /\ instr[1] # <<>> THEN instr ELSE None]

\* The loop body with the newline of a completion event left out.
print_event_no_newline(event) ==
    IF event.type = DELTA THEN event.delta ELSE <<>>

\* One pass of the loop body of stream_response_text: what it prints.
print_event(event) ==
    IF event.type = DELTA THEN event.delta
    ELSE IF event.type = COMPLETED THEN <<"\n">>
    ELSE <<>>

\* --------------------------------------------------------------- inputs

Delta(text) == [type |-> DELTA, delta |-> text]

Completed == [type |-> COMPLETED]

Created == [type |-> "response.created"]

Hi == <<"H", "i">>

There == <<" ", "t", "h", "e", "r", "e">>

Events == {Delta(Hi), Delta(There), Completed, Created}

EventSeqs == UNION {[1..n -> Events] : n \in 0..MaxEvents}

\* What the stream does: "open_error" (entering the scope raises), and after
\* the events are delivered "iter_error" (the iterator raises), "final_error"
\* (the iterator ends, an error surfaces in get_final_response) or "ok".
Streams ==
    {[events |-> es, outcome |-> o] :
        es \in EventSeqs, o \in {"iter_error", "final_error", "ok"}}
    \cup {[events |-> <<>>, outcome |-> "open_error"]}

HiThereCompleted == <<Delta(Hi), Delta(There), Completed>>

StreamsNarrow ==
    {[events |-> HiThereCompleted, outcome |-> "ok"],
     [events |-> <<Delta(Hi)>>, outcome |-> "iter_error"],
     [events |-> <<>>, outcome |-> "open_error"]}

FileChars == {" ", "\n", "X"}

\* A prompt file: None (no regular file at the path) or its text.
Files ==
    {None} \cup {Some(t) : t \in UNION {[1..n -> FileChars] : n \in 0..MaxFileLen}}

FilesNarrow == {None, Some(<<" ", "X">>)}

Env(key, url, flag, mdl) ==
    [n \in EnvNames |->
        CASE n = "OPENAI_API_KEY" -> key
          [] n = "OPENAI_BASE_URL" -> url
          [] n = "OPENAI_ALLOW_INSECURE_SSL" -> flag
          [] OTHER -> mdl]

\* The process environment at launch.
Environs ==
    {Env(k, u, f, m) :
        k \in {None, Some(""), Some("sk-env")},
        u \in {None, Some(""), Some("https://proxy")},
        f \in {None, Some("1"), Some("true"), Some("0"), Some("")},
        m \in {None, Some(""), Some("gpt-5-codex")}}

\* The .env file's assignments (all None: no file, or an empty one).
DotenvFiles ==
    {Env(k, u, f, m) :
        k \in {None, Some(""), Some("sk-file")},
        u \in {None, Some("https://file")},
        f \in {None, Some("1")},
        m \in {None, Some("gpt-5")}}

EnvironsNarrow ==
    {Env(Some("sk-env"), None, None, None),
     Env(Some("sk-env"), Some("https://proxy"), Some("1"), Some("gpt-5-codex"))}

DotenvNarrow == {Env(None, None, None, None)}

\* ---------------------------------------------------------------- state

VARIABLES
    launchEnv,      \* input: the process environment at launch
    dotenv,         \* input: the .env file
    instrFile,      \* input: prompts/instructions.txt
    sysFile,        \* input: prompts/system.txt
    stream,         \* input: what the SDK's stream does
    pc,             \* main's position
    os_environ,     \* os.environ
    api_key,        \* main's local
    model,          \* main's local
    client,         \* main's local
    instructions,   \* main's local
    sys_prompt,     \* main's local
    stream_kwargs,  \* main's local
    sent,           \* the requests handed to client.responses.stream
    streamState,    \* "none", "open" or "closed": the scope's stream
    pos,            \* events pulled from the stream so far
    exc,            \* the exception in flight, if any
    stdout,         \* characters written to standard output
    stderr,         \* messages written to the error stream
    exitCode,       \* the process's exit status, once it has exited
    trace           \* the steps taken so far, in order

inputs == <<launchEnv, dotenv, instrFile, sysFile, stream>>

locals == <<api_key, model, client, instructions, sys_prompt, stream_kwargs>>

vars == <<launchEnv, dotenv, instrFile, sysFile, stream, pc, os_environ, api_key,
          model, client, instructions, sys_prompt, stream_kwargs, sent,
          streamState, pos, exc, stdout, stderr, exitCode, trace>>

\* The inputs vary one group at a time over its whole range, the other groups
\* over a few representative values.
InitInputs ==
    \/ /\ launchEnv \in Environs
       /\ dotenv \in DotenvFiles
       /\ instrFile \in FilesNarrow
       /\ sysFile \in FilesNarrow
       /\ stream \in StreamsNarrow
    \/ /\ launchEnv \in EnvironsNarrow
       /\ dotenv \in DotenvNarrow
       /\ \/ instrFile \in Files /\ sysFile \in FilesNarrow
          \/ instrFile \in FilesNarrow /\ sysFile \in Files
       /\ stream \in StreamsNarrow
    \/ /\ launchEnv \in EnvironsNarrow
       /\ dotenv \in DotenvNarrow
       /\ instrFile \in FilesNarrow
       /\ sysFile \in FilesNarrow
       /\ stream \in Streams

Init ==
    /\ InitInputs
    /\ pc = "load_dotenv"
    /\ os_environ = launchEnv
    /\ api_key = None
    /\ model = None
    /\ client = None
    /\ instructions = None
    /\ sys_prompt = None
    /\ stream_kwargs = None
    /\ sent = <<>>
    /\ streamState = "none"
    /\ pos = 0
    /\ exc = None
    /\ stdout = <<>>
    /\ stderr = <<>>
    /\ exitCode = None
    /\ trace = <<>>

\* ---------------------------------------------------------------- steps

\* Line 62: load_dotenv(dotenv_path=".env", override=False).
LoadDotenv ==
    /\ pc = "load_dotenv"
    /\ os_environ' = load_dotenv(os_environ, dotenv)
    /\ trace' = Append(trace, "load_dotenv")
    /\ pc' = "get_api_key"
    /\ UNCHANGED <<inputs, locals, sent, streamState, pos, exc, stdout, stderr,
                   exitCode>>

\* Lines 64-67 with the exit left out: the run goes on without a key.
MissingCredentialFallThrough ==
    /\ pc = "get_api_key"
    /\ ~truthy(os_environ["OPENAI_API_KEY"])
    /\ stderr' = Append(stderr, MISSING_KEY_MESSAGE)
    /\ api_key' = Some("")
    /\ trace' = Append(trace, "read_config")
    /\ model' = Some(DEFAULT_MODEL)
    /\ pc' = "build_client"
    /\ UNCHANGED <<inputs, os_environ, client, instructions, sys_prompt,
                   stream_kwargs, sent, streamState, pos, exc, stdout, exitCode>>

\* Lines 64-67, the key missing: the diagnostic, then sys.exit(1).
MissingCredential ==
    /\ pc = "get_api_key"
    /\ ~truthy(os_environ["OPENAI_API_KEY"])
    /\ api_key' = os_environ["OPENAI_API_KEY"]
    /\ stderr' = Append(stderr, MISSING_KEY_MESSAGE)
    /\ exitCode' = Some(1)
    /\ trace' = Append(trace, "exit")
    /\ pc' = "exited"
    /\ UNCHANGED <<inputs, os_environ, model, client, instructions, sys_prompt,
                   stream_kwargs, sent, streamState, pos, exc, stdout>>

\* Lines 64-69, the key present: api_key and model are read.
ReadConfig ==
    /\ pc = "get_api_key"
    /\ truthy(os_environ["OPENAI_API_KEY"])
    /\ api_key' = os_environ["OPENAI_API_KEY"]
    /\ model' = IF os_environ["OPENAI_MODEL"] # None
                THEN os_environ["OPENAI_MODEL"] ELSE Some(DEFAULT_MODEL)
    /\ trace' = Append(trace, "read_config")
    /\ pc' = "build_client"
    /\ UNCHANGED <<inputs, os_environ, client, instructions, sys_prompt,
                   stream_kwargs, sent, streamState, pos, exc, stdout, stderr,
                   exitCode>>

\* Line 71 going straight on to the request: the prompt files are not read.
BuildClientSkipOverrides ==
    /\ pc = "build_client"
    /\ client' = Some(build_openai_client(api_key[1], os_environ))
    /\ trace' = Append(trace, "build_openai_client")
    /\ pc' = "build_request"
    /\ UNCHANGED <<inputs, os_environ, api_key, model, instructions, sys_prompt,
                   stream_kwargs, sent, streamState, pos, exc, stdout, stderr,
                   exitCode>>

\* Line 71: client = build_openai_client(api_key).
BuildClient ==
    /\ pc = "build_client"
    /\ client' = Some(build_openai_client(api_key[1], os_environ))
    /\ trace' = Append(trace, "build_openai_client")
    /\ pc' = "load_instructions"
    /\ UNCHANGED <<inputs, os_environ, api_key, model, instructions, sys_prompt,
                   stream_kwargs, sent, streamState, pos, exc, stdout, stderr,
                   exitCode>>

\* Line 72: instructions = load_instructions().
LoadInstructions ==
    /\ pc = "load_instructions"
    /\ instructions' = load_instructions(instrFile)
    /\ trace' = Append(trace, "load_instructions")
    /\ pc' = "load_system_prompt"
    /\ UNCHANGED <<inputs, os_environ, api_key, model, client, sys_prompt,
                   stream_kwargs, sent, streamState, pos, exc, stdout, stderr,
                   exitCode>>

\* Line 73: sys_prompt = load_system_prompt().
LoadSystemPrompt ==
    /\ pc = "load_system_prompt"
    /\ sys_prompt' = load_system_prompt(sysFile)
    /\ trace' = Append(trace, "load_system_prompt")
    /\ pc' = "build_request"
    /\ UNCHANGED <<inputs, os_environ, api_key, model, client, instructions,
                   stream_kwargs, sent, streamState, pos, exc, stdout, stderr,
                   exitCode>>

\* Lines 75-102: input_messages and stream_kwargs.
BuildRequest ==
    /\ pc = "build_request"
    /\ stream_kwargs' = Some(build_stream_kwargs(model[1], instructions, sys_prompt))
    /\ trace' = Append(trace, "build_request")
    /\ pc' = "open_stream"
    /\ UNCHANGED <<inputs, os_environ, api_key, model, client, instructions,
                   sys_prompt, sent, streamState, pos, exc, stdout, stderr,
                   exitCode>>

\* Line 104, entering the scope: the request is handed to the SDK, which
\* returns the stream or raises.  When it raises there is no stream to close.
OpenStream ==
    /\ pc = "open_stream"
    /\ sent' = Append(sent, stream_kwargs[1])
    /\ trace' = Append(trace, "open_stream")
    /\ IF stream.outcome = "open_error"
       THEN /\ exc' = Some("APIError")
            /\ pc' = "uncaught"
            /\ UNCHANGED streamState
       ELSE /\ streamState' = "open"
            /\ pc' = "iterate"
            /\ UNCHANGED exc
    /\ UNCHANGED <<inputs, os_environ, locals, pos, stdout, stderr, exitCode>>

\* The loop body printing nothing until the iterator has ended, then all of it.
RECURSIVE render(_)
render(es) ==
    IF es = <<>> THEN <<>> ELSE print_event(Head(es)) \o render(Tail(es))

HandleEventBatched ==
    /\ pc = "iterate"
    /\ pos < Len(stream.events)
    /\ pos' = pos + 1
    /\ stdout' = IF pos' = Len(stream.events) THEN render(stream.events) ELSE stdout
    /\ UNCHANGED <<inputs, os_environ, locals, sent, streamState, exc, stderr,
                   exitCode, pc, trace>>

\* Lines 54-58, one pass of the loop: the next event is pulled and printed.
HandleEvent ==
    /\ pc = "iterate"
    /\ pos < Len(stream.events)
    /\ pos' = pos + 1
    /\ stdout' = stdout \o print_event(stream.events[pos + 1])
    /\ UNCHANGED <<inputs, os_environ, locals, sent, streamState, exc, stderr,
                   exitCode, pc, trace>>

\* Line 54, the iterator ends: stream_response_text returns.
IterationEnds ==
    /\ pc = "iterate"
    /\ pos = Len(stream.events)
    /\ stream.outcome # "iter_error"
    /\ pc' = "get_final_response"
    /\ UNCHANGED <<inputs, os_environ, locals, sent, streamState, pos, exc, stdout,
                   stderr, exitCode, trace>>

\* The iterator's error caught and the run going on to the final response.
IterationRaisesSwallowed ==
    /\ pc = "iterate"
    /\ pos = Len(stream.events)
    /\ stream.outcome = "iter_error"
    /\ pc' = "get_final_response"
    /\ UNCHANGED <<inputs, os_environ, locals, sent, streamState, pos, exc, stdout,
                   stderr, exitCode, trace>>

\* Line 54, the iterator raises: nothing in main catches it, the scope is left.
IterationRaises ==
    /\ pc = "iterate"
    /\ pos = Len(stream.events)
    /\ stream.outcome = "iter_error"
    /\ exc' = Some("APIError")
    /\ pc' = "exit_scope"
    /\ UNCHANGED <<inputs, os_environ, locals, sent, streamState, pos, stdout,
                   stderr, exitCode, trace>>

\* Whether the stream delivered a completion event.
HasCompleted(es) == \E i \in DOMAIN es : es[i].type = COMPLETED

\* Line 106: stream.get_final_response() returns or raises.  The SDK has a
\* final response to return only when a response.completed event arrived;
\* without one it raises, as it does for an error that surfaces here.
GetFinalResponse ==
    /\ pc = "get_final_response"
    /\ trace' = Append(trace, "get_final_response")
    /\ exc' = IF stream.outcome = "final_error" THEN Some("APIError")
              ELSE IF ~HasCompleted(stream.events) THEN Some("RuntimeError")
              ELSE exc
    /\ pc' = "exit_scope"
    /\ UNCHANGED <<inputs, os_environ, locals, sent, streamState, pos, stdout,
                   stderr, exitCode>>

\* Leaving the scope without closing the stream when an exception is in flight.
ExitScopeLeaky ==
    /\ pc = "exit_scope"
    /\ streamState' = IF exc = None THEN "closed" ELSE streamState
    /\ trace' = IF exc = None THEN Append(trace, "close_stream") ELSE trace
    /\ pc' = IF exc = None THEN "return" ELSE "uncaught"
    /\ UNCHANGED <<inputs, os_environ, locals, sent, pos, exc, stdout, stderr,
                   exitCode>>

\* Line 104, leaving the scope: the stream is closed on every path, and an
\* exception in flight goes on.
ExitScope ==
    /\ pc = "exit_scope"
    /\ streamState' = "closed"
    /\ trace' = Append(trace, "close_stream")
    /\ pc' = IF exc = None THEN "return" ELSE "uncaught"
    /\ UNCHANGED <<inputs, os_environ, locals, sent, pos, exc, stdout, stderr,
                   exitCode>>

\* main returns: the process exits with status 0.
Return ==
    /\ pc = "return"
    /\ exitCode' = Some(0)
    /\ trace' = Append(trace, "exit")
    /\ pc' = "exited"
    /\ UNCHANGED <<inputs, os_environ, locals, sent, streamState, pos, exc, stdout,
                   stderr>>

\* An exception leaves main: the interpreter prints it and exits with status 1.
Uncaught ==
    /\ pc = "uncaught"
    /\ stderr' = Append(stderr, TRACEBACK)
    /\ exitCode' = Some(1)
    /\ trace' = Append(trace, "exit")
    /\ pc' = "exited"
    /\ UNCHANGED <<inputs, os_environ, locals, sent, streamState, pos, exc, stdout>>

Next ==
    \/ LoadDotenv
    \/ MissingCredential
    \/ ReadConfig
    \/ BuildClient
    \/ LoadInstructions
    \/ LoadSystemPrompt
    \/ BuildRequest
    \/ OpenStream
    \/ HandleEvent
    \/ IterationEnds
    \/ IterationRaises
    \/ GetFinalResponse
    \/ ExitScope
    \/ Return
    \/ Uncaught

Spec == Init /\ [][Next]_vars

\* ------------------------------------------------------------ properties

KEY == "OPENAI_API_KEY"

FLAG == "OPENAI_ALLOW_INSECURE_SSL"

Count(seq, x) == Cardinality({i \in DOMAIN seq : seq[i] = x})

IndexOf(seq, x) == CHOOSE i \in DOMAIN seq : seq[i] = x

IsPrefix(a, b) == Len(a) <= Len(b) /\ a = SubSeq(b, 1, Len(a))

\* The key is in neither the launch environment nor the .env file.
KeyUnset == launchEnv[KEY] = None /\ dotenv[KEY] = None

\* C1: when OPENAI_API_KEY is unset in the environment and the .env file does
\* not supply it, the run writes the diagnostic to the error stream and exits
\* with status 1, having built no client, opened no streaming call and
\* written nothing to standard output.
C1_MissingKeyExitsBeforeAnyCall ==
    KeyUnset =>
        /\ pc \in {"load_dotenv", "get_api_key", "exited"}
        /\ client = None
        /\ sent = <<>>
        /\ streamState = "none"
        /\ stdout = <<>>
        /\ pc = "exited" => exitCode = Some(1) /\ stderr = <<MISSING_KEY_MESSAGE>>
        /\ pc # "exited" => exitCode = None /\ stderr = <<>>

C1_Witness ==
    /\ KeyUnset
    /\ pc = "exited"
    /\ exitCode = Some(1)
    /\ launchEnv[FLAG] = Some("1")

\* C2: with a key present, a run hands exactly one request to the streaming
\* call, never a second one, and that request holds exactly the two messages
\* [system, user], the user message carrying PROMPT_TEXT verbatim.
C2_OneRequestTwoMessages ==
    /\ Len(sent) <= 1
    /\ (pc = "exited" /\ truthy(os_environ[KEY])) => Len(sent) = 1
    /\ \A i \in DOMAIN sent :
          LET msgs == sent[i].input
          IN  /\ Len(msgs) = 2
              /\ msgs[1].role = "system"
              /\ msgs[2].role = "user"
              /\ msgs[2].content # None
              /\ Len(msgs[2].content[1]) = 1
              /\ msgs[2].content[1][1].type = "input_text"
              /\ msgs[2].content[1][1].text =
                    "What model are you, and what application are you currently being used inside of?"

C2_Witness ==
    /\ pc = "exited"
    /\ Len(sent) = 1
    /\ exitCode = Some(1)
    /\ sent[1].instructions # None
    /\ client # None
    /\ client[1].base_url # None
    /\ client[1].http_client # None

\* C3: the client skips TLS verification if and only if
\* OPENAI_ALLOW_INSECURE_SSL is exactly "1"; for any other value, and when it
\* is unset, the client has no transport of its own, and its key and base URL
\* are what they are in the default case.
C3_InsecureOnlyOnExactOne ==
    client # None =>
        LET flag == os_environ[FLAG]
            url == os_environ["OPENAI_BASE_URL"]
        IN  /\ (client[1].http_client # None) <=> (flag = Some("1"))
            /\ client[1].http_client # None =>
                  client[1].http_client[1].verify = FALSE
            /\ flag # Some("1") =>
                  client[1] = [api_key     |-> os_environ[KEY][1],
                               base_url    |-> IF url = None \/ url = Some("")
                                               THEN None ELSE url,
                               http_client |-> None]

C3_Witness ==
    /\ client # None
    /\ os_environ[FLAG] = Some("true")
    /\ client[1].http_client = None
    /\ client[1].base_url = Some("https://proxy")

\* C4: once a stream has been opened, every way out of the scope closes it
\* exactly once; an error raised while iterating is not caught: it stays in
\* flight, no further event is pulled, no second request is sent, and the
\* process exits with a non-zero status.
C4_StreamReleasedOnceErrorPropagates ==
    /\ Count(trace, "close_stream") <= 1
    /\ (streamState = "closed") <=> (Count(trace, "close_stream") = 1)
    /\ (pc \in {"return", "uncaught", "exited"} /\ stream.outcome # "open_error"
            /\ Len(sent) > 0) =>
          streamState = "closed"
    /\ streamState = "none" => Count(trace, "close_stream") = 0
    /\ exc # None =>
          /\ pc \in {"exit_scope", "uncaught", "exited"}
          /\ Len(sent) = 1
          /\ pos = Len(stream.events)
          /\ pc = "exited" => exitCode = Some(1) /\ stderr = <<TRACEBACK>>
    /\ (stream.outcome = "iter_error" /\ streamState # "none"
            /\ pc \in {"exit_scope", "uncaught", "exited"}) =>
          exc # None

C4_Witness ==
    /\ pc = "exited"
    /\ stream.outcome = "iter_error"
    /\ pos >= 1
    /\ streamState = "closed"
    /\ exitCode = Some(1)

\* The text of the deltas of an event sequence, in order.
RECURSIVE ConcatDeltas(_)
ConcatDeltas(es) ==
    IF es = <<>> THEN <<>>
    ELSE (IF Head(es).type = "response.output_text.delta" THEN Head(es).delta ELSE <<>>)
         \o ConcatDeltas(Tail(es))

\* Exactly one completion event, and no text delta after it.
OneCompletionAfterDeltas(es) ==
    \E i \in DOMAIN es :
        /\ es[i].type = "response.completed"
        /\ \A j \in DOMAIN es : j # i => es[j].type # "response.completed"
        /\ \A j \in DOMAIN es : j > i => es[j].type # "response.output_text.delta"

Succeeded == pc = "exited" /\ exitCode = Some(0)

\* C5 as stated: for every event sequence, a run that ends with exit code 0
\* has written the deltas in order followed by exactly one newline.
C5_AnySequenceEndsWithOneNewline ==
    Succeeded => stdout = ConcatDeltas(stream.events) \o <<"\n">>

\* C5, amended: for every event sequence that holds exactly one completion
\* event and no text delta after it, a run that ends with exit code 0 has
\* written the deltas in order followed by exactly one newline, and nothing
\* else.
C5_CompletedSequenceEndsWithOneNewline ==
    (Succeeded /\ OneCompletionAfterDeltas(stream.events)) =>
        stdout = ConcatDeltas(stream.events) \o <<"\n">>

C5_Witness ==
    /\ Succeeded
    /\ stream.events = <<Delta(There), Created, Delta(Hi), Completed>>
          \/ stream.events = <<Delta(There), Delta(Hi), Completed>>
    /\ stdout = There \o Hi \o <<"\n">>

\* What one event adds to standard output, as the claim states it.
Contribution(e) ==
    CASE e.type = "response.output_text.delta" -> e.delta
      [] e.type = "response.completed" -> <<"\n">>
      [] OTHER -> <<>>

RECURSIVE Contributions(_)
Contributions(es) ==
    IF es = <<>> THEN <<>> ELSE Contribution(Head(es)) \o Contributions(Tail(es))

\* C6: events are handled one at a time in delivery order and each is printed
\* before the next is pulled: after the k-th event standard output is exactly
\* what events 1..k contribute, a delta its text, a completion one newline,
\* any other event nothing.
C6_OutputFollowsEachEvent ==
    /\ pos \in 0..Len(stream.events)
    /\ stdout = Contributions(SubSeq(stream.events, 1, pos))

C6_Witness ==
    /\ stream.events = HiThereCompleted
    /\ pc = "iterate"
    /\ pos = 1
    /\ stdout = <<"H", "i">>

AllSpace(s) == \A i \in DOMAIN s : s[i] \in {" ", "\n", "\t"}

\* x is s without its leading and trailing whitespace, and is not empty.
IsTrimOf(x, s) ==
    \E i, j \in DOMAIN s :
        /\ i <= j
        /\ x = SubSeq(s, i, j)
        /\ s[i] \notin {" ", "\n", "\t"}
        /\ s[j] \notin {" ", "\n", "\t"}
        /\ \A k \in DOMAIN s : (k < i \/ k > j) => s[k] \in {" ", "\n", "\t"}

\* C7: the request leaves instructions out when the file is absent or holds
\* only whitespace, and otherwise carries exactly the file's trimmed text; the
\* field is never empty or padded, and the model, store and input fields are
\* the same whether it is there or not.
C7_InstructionsTrimmedOrOmitted ==
    stream_kwargs # None =>
        LET r == stream_kwargs[1]
        IN  /\ (instrFile = None \/ AllSpace(instrFile[1])) => r.instructions = None
            /\ (instrFile # None /\ ~AllSpace(instrFile[1])) =>
                  /\ r.instructions # None
                  /\ IsTrimOf(r.instructions[1], instrFile[1])
            /\ r.instructions # None =>
                  LET x == r.instructions[1]
                  IN  x # <<>> /\ ~AllSpace(<<x[1]>>) /\ ~AllSpace(<<x[Len(x)]>>)
            /\ r.model = model[1]
            /\ r.store = FALSE
            /\ Len(r.input) = 2
            /\ r.input[1] = [role |-> "system", content |-> sys_prompt]
            /\ r.input[2].role = "user"
            /\ \A i \in DOMAIN sent : sent[i] = r

C7_Witness ==
    /\ stream_kwargs # None
    /\ instrFile = Some(<<"\n", "X", " ">>)
    /\ stream_kwargs[1].instructions = Some(<<"X">>)
    /\ Len(sent) = 1

\* C8: loading the .env file never overrides a variable of the process
\* environment: a name set in both keeps the environment's value, a name set
\* only in the file takes the file's, the result does not change again, and
\* the key the run uses is that value.
C8_EnvironmentWinsOverDotenv ==
    /\ pc = "load_dotenv" => os_environ = launchEnv
    /\ pc # "load_dotenv" =>
          \A n \in EnvNames :
              /\ launchEnv[n] # None => os_environ[n] = launchEnv[n]
              /\ launchEnv[n] = None => os_environ[n] = dotenv[n]
    /\ pc \notin {"load_dotenv", "get_api_key"} =>
          api_key = (IF launchEnv[KEY] # None THEN launchEnv[KEY] ELSE dotenv[KEY])
    /\ client # None =>
          Some(client[1].api_key) =
              (IF launchEnv[KEY] # None THEN launchEnv[KEY] ELSE dotenv[KEY])

C8_Witness ==
    /\ launchEnv[KEY] = Some("sk-env")
    /\ dotenv[KEY] = Some("sk-file")
    /\ launchEnv[FLAG] = None
    /\ dotenv[FLAG] = Some("1")
    /\ client # None
    /\ client[1].api_key = "sk-env"
    /\ client[1].http_client # None

\* The steps taken, the closing of the stream's scope left out.
StepsTaken == SelectSeq(trace, LAMBDA l : l # "close_stream")

\* The steps of a run before its exit.
StepsBeforeExit ==
    IF StepsTaken # <<>> /\ StepsTaken[Len(StepsTaken)] = "exit"
    THEN SubSeq(StepsTaken, 1, Len(StepsTaken) - 1)
    ELSE StepsTaken

KeyPresent == pc # "load_dotenv" /\ truthy(os_environ[KEY])

\* C9 as stated: with a key present the steps are taken in the order Load
\* Config, Load Overrides, Build Client, Build Request, Stream, Drain Final
\* Response, End, none repeated or skipped.
C9_OverridesBeforeClient ==
    KeyPresent =>
        IsPrefix(StepsTaken,
                 <<"load_dotenv", "read_config", "load_instructions",
                   "load_system_prompt", "build_openai_client", "build_request",
                   "open_stream", "get_final_response", "exit">>)

\* The order main takes its steps in.
OrderOfMain ==
    <<"load_dotenv", "read_config", "build_openai_client", "load_instructions",
      "load_system_prompt", "build_request", "open_stream", "get_final_response">>

\* C9, amended: with a key present the steps are taken in the order Load
\* Config, Build Client, Load Overrides (instructions, then system prompt),
\* Build Request, Stream, Drain Final Response, End, none repeated; a run in
\* which nothing raises skips none, and a run in which the SDK raises goes
\* from the raising step (Stream or Drain Final Response) straight to End.
C9_ClientBeforeOverrides ==
    KeyPresent =>
        /\ IsPrefix(StepsBeforeExit, OrderOfMain)
        /\ Count(StepsTaken, "exit") <= 1
        /\ (pc = "exited") <=> (Count(StepsTaken, "exit") = 1)
        /\ exc = None /\ pc = "exited" => StepsBeforeExit = OrderOfMain
        /\ exc # None => Len(StepsBeforeExit) >= 7
        /\ exc # None /\ Len(StepsBeforeExit) = 7 =>
              stream.outcome \in {"open_error", "iter_error"}
        /\ exc # None /\ Len(StepsBeforeExit) = 8 =>
              stream.outcome \in {"final_error", "ok"}
        /\ pc = "exited" /\ exitCode = Some(0) => exc = None

C9_Witness ==
    /\ Succeeded
    /\ instructions # None
    /\ sys_prompt # None
    /\ StepsTaken = OrderOfMain \o <<"exit">>

\* C10: get_final_response is called at most once, only after every event
\* has been handled and the iterator has ended without an error, and while
\* the stream is still open; when the iterator ends without an error it is
\* called before the stream is closed, and when the iterator raises it is
\* never called.
C10_FinalResponseAfterEventsBeforeClose ==
    /\ Count(trace, "get_final_response") <= 1
    /\ Count(trace, "get_final_response") = 1 =>
          /\ pos = Len(stream.events)
          /\ stream.outcome \in {"ok", "final_error"}
    /\ pc = "get_final_response" =>
          streamState = "open" /\ Count(trace, "get_final_response") = 0
    /\ streamState = "closed" =>
          IF stream.outcome \in {"ok", "final_error"}
          THEN /\ Count(trace, "get_final_response") = 1
               /\ IndexOf(trace, "get_final_response") < IndexOf(trace, "close_stream")
          ELSE Count(trace, "get_final_response") = 0
    /\ stream.outcome \in {"iter_error", "open_error"} =>
          Count(trace, "get_final_response") = 0

C10_Witness ==
    /\ pc = "exited"
    /\ stream.outcome = "final_error"
    /\ Len(stream.events) = 2
    /\ Count(trace, "get_final_response") = 1
    /\ streamState = "closed"

=============================================================================
